---- MODULE Spec2Model ----
(***************************************************************************)
(* Scenario driver, renewable redistribution and convergence fallback of   *)
(* the MIRACA energy-modelling pipeline (main_program.py section 7 and     *)
(* scripts/_7_time_series_and_pf_calculations.py).                         *)
(*                                                                         *)
(* Numbers are exact rationals <<n, d>> in lowest terms with d > 0; the    *)
(* pair <<0, 0>> is the missing value (NaN) of the pandas tables.          *)
(***************************************************************************)
EXTENDS Integers, Sequences, FiniteSets, TLC

\* Number of timestamps of time_series_short (the program uses 10, or 1 for
\* large systems); the model bounds it.
NumSteps == 2

(***************************************************************************)
(* Arithmetic on table cells                                               *)
(***************************************************************************)
NaN == <<0, 0>>

IsNaN(a) == a[2] = 0

Abs(n) == IF n < 0 THEN -n ELSE n

RECURSIVE GCD(_, _)
GCD(a, b) == IF b = 0 THEN a ELSE GCD(b, a % b)

Norm(n, d) ==
    IF d = 0 THEN NaN
    ELSE LET s == IF d < 0 THEN -1 ELSE 1
             g == GCD(Abs(n), Abs(d))
         IN  <<(s * n) \div g, (s * d) \div g>>

R(n) == <<n, 1>>

Zero == R(0)

Add(a, b) == IF IsNaN(a) \/ IsNaN(b) THEN NaN
             ELSE Norm(a[1] * b[2] + b[1] * a[2], a[2] * b[2])

Sub(a, b) == IF IsNaN(a) \/ IsNaN(b) THEN NaN
             ELSE Norm(a[1] * b[2] - b[1] * a[2], a[2] * b[2])

Mul(a, b) == IF IsNaN(a) \/ IsNaN(b) THEN NaN
             ELSE Norm(a[1] * b[1], a[2] * b[2])

\* Division; the callers guard the divisor (totals > 0, num >= 1).
Div(a, b) == IF IsNaN(a) \/ IsNaN(b) THEN NaN
             ELSE Norm(a[1] * b[2], a[2] * b[1])

\* Comparisons are False as soon as one side is missing.
Lt(a, b) == ~IsNaN(a) /\ ~IsNaN(b) /\ a[1] * b[2] < b[1] * a[2]

Le(a, b) == ~IsNaN(a) /\ ~IsNaN(b) /\ a[1] * b[2] <= b[1] * a[2]

\* Python's builtin min(a, b): b if b < a else a.
Min2(a, b) == IF Lt(b, a) THEN b ELSE a

\* Series.fillna(0)
FillNa(a) == IF IsNaN(a) THEN Zero ELSE a

\* Series.sum(): missing values are skipped, the empty sum is 0.
RECURSIVE SumOver(_, _)
SumOver(f, S) ==
    IF S = {} THEN Zero
    ELSE LET i == CHOOSE x \in S : TRUE
         IN  Add(FillNa(f[i]), SumOver(f, S \ {i}))

(***************************************************************************)
(* Generator fleet after network construction (main_program.py section 4)  *)
(***************************************************************************)
\* Generation regulation range per fuel type; <<NaN, NaN>> stands for the
\* (None, None) of an invalid range.
calculate_power_limits(fueltype, P_nom) ==
    LET frac == CASE fueltype = "nuclear" -> <<1, 2>>
                  [] fueltype \in {"coal", "lignite"} -> <<2, 5>>
                  [] fueltype \in {"CCGT", "OCGT"} -> <<2, 5>>
                  [] fueltype \in {"biomass", "waste", "oil"} -> <<3, 10>>
                  [] fueltype \in {"hydro", "PHS", "ror"} -> <<1, 10>>
                  [] fueltype \in {"wind", "solar"} -> <<0, 1>>
                  [] fueltype = "geothermal" -> <<3, 5>>
                  [] OTHER -> <<1, 5>>
        P_min == Mul(P_nom, frac)
        P_max == P_nom
    IN  IF Lt(P_min, Zero) \/ Le(P_max, P_min) THEN <<NaN, NaN>>
        ELSE <<P_min, P_max>>

\* The generator record pp.create_gen inserts for one power plant.
CreateGen(bus, fueltype, technology, capacity) ==
    LET lim == calculate_power_limits(fueltype, capacity)
        controllable == ~IsNaN(lim[1]) /\ ~IsNaN(lim[2])
    IN  [bus |-> bus, type |-> fueltype, tech |-> technology,
         p_mw |-> capacity, p_mw_original |-> capacity,
         min_p_mw |-> IF controllable THEN lim[1] ELSE Zero,
         max_p_mw |-> IF controllable THEN lim[2] ELSE Zero,
         controllable |-> TRUE, country |-> "NaN", normed_p_mw |-> NaN,
         scaling |-> R(1), in_service |-> TRUE]

\* The generator record of an HVDC converter: no type, no tech, no
\* p_mw_original; its missing limits are filled with 0 before section 7.1.
CreateConverter(bus, p_nom) ==
    [bus |-> bus, type |-> "NaN", tech |-> "NaN",
     p_mw |-> FillNa(p_nom), p_mw_original |-> NaN,
     min_p_mw |-> FillNa(NaN), max_p_mw |-> FillNa(NaN),
     controllable |-> TRUE, country |-> "NaN", normed_p_mw |-> NaN,
     scaling |-> R(1), in_service |-> TRUE]

\* net.bus["zone"] of the buses that carry generators or loads.
BusZone == [b \in {"b1", "b2", "b3", "b4"} |->
               IF b \in {"b1", "b2"} THEN "GB" ELSE "DE"]

\* Two-country fleet: onshore wind on both sides of the border.
FleetTwoCountries ==
    << CreateGen("b1", "wind", "onwind", R(1)),
       CreateGen("b3", "wind", "onwind", R(3)),
       CreateGen("b2", "wind", "offwind", R(2)),
       CreateGen("b3", "solar", "CSP", R(2)),
       CreateGen("b4", "coal", "Steam Turbine", R(2)) >>

\* One-country fleet with an HVDC converter.
FleetOneCountry ==
    << CreateGen("b3", "wind", "onwind", R(1)),
       CreateGen("b4", "wind", "onwind", R(2)),
       CreateGen("b4", "wind", "offwind", R(2)),
       CreateGen("b3", "solar", "solar", R(2)),
       CreateConverter("b4", R(1)) >>

Fleets == {FleetTwoCountries, FleetOneCountry}

\* processed_regions: id, country and load_factor of each NUTS region.
processed_regions ==
    << [id |-> "UKC", country |-> "UK", load_factor |-> <<1, 2>>],
       [id |-> "UKD", country |-> "UK", load_factor |-> <<1, 2>>],
       [id |-> "DE1", country |-> "DE", load_factor |-> R(1)] >>

\* The load records pp.create_load inserts (distribute_load mode: num is the
\* number of records of the region).
CreateLoad(bus, name, demand, num) ==
    [bus |-> bus, name |-> name, p_mw |-> Div(demand, R(num)), num |-> R(num),
     min_p_mw |-> NaN, max_p_mw |-> NaN, controllable |-> FALSE,
     in_service |-> TRUE]

\* loads_NUTS3: id and demand (load_factor) of each load region, with the
\* buses its records are placed on.
loads_NUTS3 ==
    << [id |-> "UKC", load_factor |-> R(1), buses |-> <<"b1", "b2">>],
       [id |-> "UKD", load_factor |-> R(1), buses |-> <<"b2">>],
       [id |-> "DE1", load_factor |-> R(2), buses |-> <<"b3">>] >>

\* Lines 207-226: one record per bus of the region.
DistributedLoads(element) ==
    [k \in DOMAIN element.buses |->
       CreateLoad(element.buses[k], element.id, element.load_factor,
                  Len(element.buses))]

InitLoads ==
    DistributedLoads(loads_NUTS3[1]) \o DistributedLoads(loads_NUTS3[2])
       \o DistributedLoads(loads_NUTS3[3])

(***************************************************************************)
(* Renewable redistribution (allocate_renewable_generation)                *)
(***************************************************************************)
\* F applied to the value of v, with v evaluated once.
Bind(v, F(_)) == CHOOSE r \in {F(x) : x \in {v}} : TRUE

Ids(g) == DOMAIN g

Column(g, f) == [i \in Ids(g) |-> g[i][f]]

\* network.gen["tech"] == renewable
Selected(g, renewable) == {i \in Ids(g) : g[i].tech = renewable}

\* A variant that passes the observation on without the cap.
UncappedGeneration(g, sel, country_generation) == country_generation

\* Lines 110-116: the observation capped at the capacity of the selection.
CappedGeneration(g, sel, country_generation) ==
    Min2(country_generation, SumOver(Column(g, "p_mw_original"), sel))

\* Lines 118-122: p_mw after the initial assignment.
InitialGeneration(g, sel, cg) ==
    [i \in Ids(g) |->
       IF i \in sel THEN Mul(g[i].normed_p_mw, cg) ELSE g[i].p_mw]

\* Lines 124-129: excess beyond p_mw_original, 0 where it is not positive.
ExcessGeneration(g, sel, p) ==
    [i \in sel |->
       IF Lt(Zero, Sub(p[i], g[i].p_mw_original))
       THEN Sub(p[i], g[i].p_mw_original) ELSE Zero]

\* Line 132: p_mw reduced to the p_mw_original limit.
Clipped(sel, p, excess_generation) ==
    [i \in DOMAIN p |->
       IF i \in sel THEN Sub(p[i], excess_generation[i]) ELSE p[i]]

\* Lines 134-148: the excess spread over every generator of the network
\* whose p_mw is below its p_mw_original, in proportion to that headroom.
Headroom(g, p) == [i \in Ids(g) |-> Sub(g[i].p_mw_original, p[i])]

Scaled(p, headroom, available_generators, scaling_factor) ==
    [i \in DOMAIN p |->
       IF i \in available_generators
       THEN Add(p[i], Mul(headroom[i], scaling_factor)) ELSE p[i]]

\* The result tells besides whether the excess exceeded the headroom.
Redistributed(g, p, excess_sum) ==
    Bind(<<{i \in Ids(g) : Lt(p[i], g[i].p_mw_original)}, Headroom(g, p)>>,
         LAMBDA a :
           Bind(SumOver(a[2], a[1]),
                LAMBDA total_available_capacity :
                  [p |-> IF a[1] # {} /\ Lt(Zero, total_available_capacity)
                         THEN Scaled(p, a[2], a[1],
                                     Div(excess_sum, total_available_capacity))
                         ELSE p,
                   short |-> Lt(total_available_capacity, excess_sum)]))

\* Variant: the ceiling of the selection follows the dispatch.
FrozenWithCeiling(g, sel, p) ==
    [i \in Ids(g) |->
       IF i \in sel
       THEN [g[i] EXCEPT !.p_mw = p[i], !.min_p_mw = p[i], !.max_p_mw = p[i],
                         !.p_mw_original = p[i]]
       ELSE [g[i] EXCEPT !.p_mw = p[i]]]

\* Lines 150-156: the selection frozen at its p_mw.
Frozen(g, sel, p) ==
    [i \in Ids(g) |->
       IF i \in sel
       THEN [g[i] EXCEPT !.p_mw = p[i], !.min_p_mw = p[i], !.max_p_mw = p[i]]
       ELSE [g[i] EXCEPT !.p_mw = p[i]]]

\* The body of allocate_renewable_generation: the new gen table, and
\* whether the excess exceeded the headroom that could take it.
Allocation(g, country_generation, renewable) ==
    Bind(Selected(g, renewable), LAMBDA sel :
      Bind(InitialGeneration(
               g, sel, CappedGeneration(g, sel, country_generation)),
           LAMBDA p1 :
        Bind(ExcessGeneration(g, sel, p1), LAMBDA excess_generation :
          Bind(Clipped(sel, p1, excess_generation), LAMBDA p2 :
            Bind(Redistributed(g, p2, SumOver(excess_generation, sel)),
                 LAMBDA r : [gen |-> Frozen(g, sel, r.p),
                             short |-> r.short])))))

\* The callers pass "Solar", "onwind", "offwind" or "wind" only, so the
\* ValueError of the first check is never raised.
allocate_renewable_generation(g, country_generation, renewable) ==
    Allocation(g, country_generation, renewable).gen

(***************************************************************************)
(* Capacity normalisation (create_values_per_country)                      *)
(***************************************************************************)
\* Variant: the combined wind category is normalised last.
categoriesWindLast == << <<"solar", "type">>, <<"onwind", "tech">>,
                         <<"offwind", "tech">>, <<"wind", "type">> >>

\* categories: the column each generation category is read from, in the
\* order the dictionary is iterated.
categories == << <<"solar", "type">>, <<"wind", "type">>,
                 <<"onwind", "tech">>, <<"offwind", "tech">> >>

CountryCode(country) == IF country = "UK" THEN "GB" ELSE country

\* processed_regions["country"].unique(), in order of first appearance.
RECURSIVE Unique(_)
Unique(s) ==
    IF s = <<>> THEN <<>>
    ELSE Bind(Unique(SubSeq(s, 1, Len(s) - 1)), LAMBDA r :
           IF \E k \in 1..Len(r) : r[k] = s[Len(s)] THEN r
           ELSE Append(r, s[Len(s)]))

Group(g, country, cat) ==
    {i \in Ids(g) : g[i].country = country /\ g[i][cat[2]] = cat[1]}

\* totals of one country: category -> summed p_mw_original
Totals(g, country) ==
    [key \in {"solar", "wind", "onwind", "offwind"} |->
       SumOver(Column(g, "p_mw_original"),
               Group(g, country,
                     CHOOSE c \in {categories[k] : k \in 1..Len(categories)} :
                        c[1] = key))]

\* Lines 187-199: the shares of one category of one country.
Normalized(g, grp, total) ==
    [i \in Ids(g) |->
       IF i \in grp
       THEN [g[i] EXCEPT !.normed_p_mw = Div(g[i].p_mw_original, total)]
       ELSE g[i]]

\* The normalisation loop of one country over the categories k..4.
RECURSIVE NormalizeCountry(_, _, _, _)
NormalizeCountry(g, country, totals, k) ==
    IF k > Len(categories) THEN g
    ELSE IF Lt(Zero, totals[categories[k][1]])
    THEN Bind(Normalized(g, Group(g, country, categories[k]),
                         totals[categories[k][1]]),
              LAMBDA g1 : NormalizeCountry(g1, country, totals, k + 1))
    ELSE NormalizeCountry(g, country, totals, k + 1)

\* cached_values[country] = totals
Store(cached, country, totals) ==
    [c \in DOMAIN cached \cup {country} |->
       IF c = country THEN totals ELSE cached[c]]

\* The loop over the countries n.. of the region table; st = [gen, cached].
RECURSIVE NormalizeCountries(_, _, _)
NormalizeCountries(st, countries, n) ==
    IF n > Len(countries) THEN st
    ELSE Bind(Totals(st.gen, CountryCode(countries[n])), LAMBDA totals :
           Bind([gen |-> NormalizeCountry(
                             st.gen, CountryCode(countries[n]), totals, 1),
                 cached |-> Store(st.cached, CountryCode(countries[n]),
                                  totals)],
                LAMBDA st1 : NormalizeCountries(st1, countries, n + 1)))

\* Line 167: the country of each generator, from the zone of its bus.
WithCountry(g) ==
    [i \in Ids(g) |-> [g[i] EXCEPT !.country = BusZone[g[i].bus]]]

\* create_values_per_country on st = [gen, cached, has_cached]: the function
\* attribute cached_values is st.cached, present when st.has_cached.
create_values_per_country(st, regions, force_update) ==
    Bind(WithCountry(st.gen), LAMBDA g0 :
      IF force_update \/ ~st.has_cached
      THEN Bind(NormalizeCountries(
                    [gen |-> g0, cached |-> << >>],
                    Unique([k \in 1..Len(regions) |-> regions[k].country]),
                    1),
                LAMBDA r : [gen |-> r.gen, cached |-> r.cached,
                            has_cached |-> TRUE])
      ELSE [gen |-> g0, cached |-> st.cached, has_cached |-> st.has_cached])

(***************************************************************************)
(* Per-time-step update of loads and generation (update_loads)             *)
(***************************************************************************)
\* A time-series column is named by its country prefix and its kind:
\* <<"DE", "load">> is DE_load_actual..., <<"GB_UKM", "onshore">> is
\* GB_UKM_wind_onshore_generation_actual, and so on.  A row of the time
\* series is a function from the columns present to their values.
None == [none |-> TRUE, v |-> << >>]

Some(x) == [none |-> FALSE, v |-> x]

\* [col for col in time_series.columns if col.startswith(prefix)]
MatchingColumns(columns, prefix) ==
    IF prefix \in columns THEN << prefix >> ELSE << >>

Truthy(opt) == ~opt.none /\ opt.v # << >>

\* time_series.loc[time_step, col]
Obs(row, col) == row[col]

\* The country prefix of the column names of a region.
Prefix(region) == IF region.country = "UK" THEN "GB_UKM" ELSE region.country

Techs(g) == {g[i].tech : i \in Ids(g)}

\* The prefixes a region sets (lines 233-271); l carries the names that
\* update_loads binds once before the loop and never resets.  The else
\* branch of the offshore test hangs on the tech test for UK and on the
\* column test for every other country.
RegionPrefixes(l, region, columns, techs) ==
    [l EXCEPT
       !.epOn = IF /\ "onwind" \in techs
                   /\ <<Prefix(region), "onshore">> \in columns
                THEN Some(<<Prefix(region), "onshore">>) ELSE l.epOn,
       !.epOff = IF /\ "offwind" \in techs
                    /\ <<Prefix(region), "offshore">> \in columns
                 THEN Some(<<Prefix(region), "offshore">>) ELSE l.epOff,
       !.epWind = IF region.country = "UK"
                  THEN IF "offwind" \in techs THEN l.epWind
                       ELSE Some(<<Prefix(region), "wind">>)
                  ELSE IF /\ "offwind" \in techs
                          /\ <<Prefix(region), "offshore">> \notin columns
                       THEN Some(<<Prefix(region), "wind">>) ELSE l.epWind]

\* Lines 309-337: the matching columns of the region.
RegionMatching(l, columns) ==
    [l EXCEPT
       !.mcOn = IF ~l.epOn.none
                THEN Some(MatchingColumns(columns, l.epOn.v)) ELSE l.mcOn,
       !.mcOff = IF ~l.epOff.none
                 THEN Some(MatchingColumns(columns, l.epOff.v)) ELSE l.mcOff,
       !.mcWind = IF l.epOn.none /\ l.epOff.none /\ ~l.epWind.none
                  THEN Some(MatchingColumns(columns, l.epWind.v))
                  ELSE l.mcWind]

\* Variant: every record of the region gets the whole region_load.
RegionLoadsUndivided(ld, region, row) ==
    IF MatchingColumns(DOMAIN row, <<Prefix(region), "load">>) # << >>
    THEN [j \in DOMAIN ld |->
            IF ld[j].name = region.id
            THEN [ld[j] EXCEPT !.p_mw =
                    Mul(Obs(row, <<Prefix(region), "load">>),
                        region.load_factor)]
            ELSE ld[j]]
    ELSE ld

\* Lines 340-357: the load records of the region.
RegionLoads(ld, region, row) ==
    IF MatchingColumns(DOMAIN row, <<Prefix(region), "load">>) # << >>
    THEN [j \in DOMAIN ld |->
            IF ld[j].name = region.id
            THEN [ld[j] EXCEPT !.p_mw =
                    Div(Mul(Obs(row, <<Prefix(region), "load">>),
                            region.load_factor), ld[j].num)]
            ELSE ld[j]]
    ELSE ld

\* Lines 360-369, 371-380 and 382-391: one guarded allocation on
\* a = [gen, short, done]; done holds the categories allocated so far.
GuardedAllocation(a, guard, row, cols, renewable) ==
    IF guard
    THEN Bind(Allocation(a.gen, Obs(row, cols[1]), renewable),
              LAMBDA r : [gen |-> r.gen, short |-> a.short \/ r.short,
                          done |-> a.done \cup {renewable}])
    ELSE a

\* Lines 393-406: the aggregate wind allocation; indexing the empty list of
\* matching columns raises IndexError.
WindAllocation(l, a, row) ==
    IF ~(l.mcOff.none /\ l.mcOn.none /\ ~l.mcWind.none)
    THEN [l EXCEPT !.gen = a.gen, !.short = a.short, !.done = a.done]
    ELSE IF l.mcWind.v = << >>
    THEN [l EXCEPT !.gen = a.gen, !.short = a.short, !.done = a.done,
                   !.raised = TRUE]
    ELSE Bind(GuardedAllocation(a, TRUE, row, l.mcWind.v, "wind"),
              LAMBDA r : [l EXCEPT !.gen = r.gen, !.short = r.short,
                                   !.done = r.done])

\* Lines 359-406: the renewable allocations of the region; total is
\* cached_values[country_code].
RegionGeneration(l, region, row, total) ==
    Bind(GuardedAllocation(
             [gen |-> l.gen, short |-> l.short, done |-> l.done],
             /\ <<Prefix(region), "solar">> \in DOMAIN row
             /\ Lt(Zero, total["solar"]),
             row, << <<Prefix(region), "solar">> >>, "Solar"),
         LAMBDA g1 :
      Bind(GuardedAllocation(
               g1, Truthy(l.mcOn) /\ Lt(Zero, total["onwind"]),
               row, l.mcOn.v, "onwind"),
           LAMBDA g2 :
        Bind(GuardedAllocation(
                 g2, Truthy(l.mcOff) /\ Lt(Zero, total["offwind"]),
                 row, l.mcOff.v, "offwind"),
             LAMBDA g3 : WindAllocation(l, g3, row))))

\* One iteration of the loop over the regions.
RegionStep(l, region, row, variable) ==
    Bind(RegionMatching(
             RegionPrefixes(l, region, DOMAIN row, Techs(l.gen)), DOMAIN row),
         LAMBDA l1 :
      Bind([l1 EXCEPT !.load = RegionLoads(l1.load, region, row)],
           LAMBDA l2 :
             IF variable THEN l2
             ELSE RegionGeneration(
                      l2, region, row, l2.cached[CountryCode(region.country)])))

\* The loop over the regions n.. of update_loads; an exception ends it.
RECURSIVE RegionLoop(_, _, _, _, _)
RegionLoop(l, regions, row, variable, n) ==
    IF n > Len(regions) \/ l.raised THEN l
    ELSE Bind(RegionStep(l, regions[n], row, variable),
              LAMBDA l1 : RegionLoop(l1, regions, row, variable, n + 1))

\* Line 230: the tech of every generator of type solar becomes "solar".
SolarTech(g) ==
    [i \in Ids(g) |->
       IF g[i].type = "solar" THEN [g[i] EXCEPT !.tech = "solar"] ELSE g[i]]

\* update_loads on net = [gen, load, cached, has_cached]; row is the row of
\* the time series at time_step.  The result adds the flag raised, and the
\* flag short: some allocation of the call had more excess than headroom,
\* and done: the categories allocate_renewable_generation was called for.
update_loads(net, row, regions, force_update, variable) ==
    Bind(create_values_per_country(
             [gen |-> net.gen, cached |-> net.cached,
              has_cached |-> net.has_cached], regions, force_update),
         LAMBDA cv :
      Bind(RegionLoop(
               [gen |-> SolarTech(cv.gen), load |-> net.load,
                cached |-> cv.cached, has_cached |-> cv.has_cached,
                raised |-> FALSE, short |-> FALSE, done |-> {},
                epOn |-> None, epOff |-> None, epWind |-> None,
                mcOn |-> None, mcOff |-> None, mcWind |-> None],
               regions, row, variable, 1),
           LAMBDA l : [gen |-> l.gen, load |-> l.load, cached |-> l.cached,
                       has_cached |-> l.has_cached, raised |-> l.raised,
                       short |-> l.short, done |-> l.done]))

(***************************************************************************)
(* Time series and solver results (external inputs)                        *)
(***************************************************************************)
Kinds == {"load", "solar", "onshore", "offshore", "wind"}

AllColumns == {"GB_UKM", "DE"} \X Kinds

\* A calm hour: every observation below the installed capacity.
RowCalm ==
    [c \in AllColumns |->
       CASE c = <<"GB_UKM", "load">> -> R(4)
         [] c = <<"DE", "load">> -> R(3)
         [] c = <<"DE", "onshore">> -> R(2)
         [] c = <<"DE", "wind">> -> R(3)
         [] OTHER -> R(1)]

\* A gusty hour: German onshore wind above the German onshore capacity,
\* and a lower German demand.
RowGusty == [RowCalm EXCEPT ![<<"DE", "onshore">>] = R(4),
                            ![<<"DE", "solar">>] = R(3),
                            ![<<"DE", "load">>] = R(2)]

\* An hour whose German onshore observation is a missing data point.
RowGap == [RowCalm EXCEPT ![<<"DE", "onshore">>] = NaN]

\* load_profiles: the hourly profile table the time series is cut from.
load_profiles ==
    << RowCalm, RowGusty, RowGap, RowCalm, RowCalm >>

\* The column sets of the time series: complete, without the German
\* offshore column, with the aggregate wind column only, without wind.
ColumnSets ==
    { AllColumns \ ({"GB_UKM", "DE"} \X {"wind"}),
      AllColumns \ {<<"DE", "offshore">>, <<"GB_UKM", "wind">>},
      AllColumns \ ({"GB_UKM", "DE"} \X {"onshore", "offshore"}),
      {"GB_UKM", "DE"} \X {"load", "solar"} }

Restrict(row, columns) == [c \in columns |-> row[c]]

\* time_series_short: the NumSteps rows from position start on, each with
\* its timestamp, restricted to the columns of the table.
TimeSeriesShort(start, columns) ==
    [k \in 1..NumSteps |->
       [time_step |-> start + k - 1,
        obs |-> Restrict(load_profiles[start + k - 1], columns)]]

\* What the grid solver leaves in net.res_load, net.res_gen and
\* net.res_line["loading_percent"] when it returns without raising.
ResMissing == [load |-> <<NaN, NaN>>, gen |-> <<NaN, NaN>>,
               loading |-> <<NaN, NaN>>]

ResNormal == [load |-> <<R(2), R(1)>>, gen |-> <<R(1), R(2)>>,
              loading |-> <<R(50), R(100)>>]

ResOverload == [load |-> <<R(2), R(1)>>, gen |-> <<R(1), R(2)>>,
                loading |-> <<R(101), R(50)>>]

SolverResults == {ResMissing, ResNormal, ResOverload}

\* The empty result tables of a network no solver has run on; the tables a
\* previous run left are never read before the next invocation overwrites
\* them, and the model empties them when a run begins.
ResEmpty == [load |-> << >>, gen |-> << >>, loading |-> << >>]

\* Series.max(): the largest non-missing value, missing if there is none.
SeriesMax(sq) ==
    IF \A k \in DOMAIN sq : IsNaN(sq[k]) THEN NaN
    ELSE sq[CHOOSE k \in DOMAIN sq :
                /\ ~IsNaN(sq[k])
                /\ \A m \in DOMAIN sq : IsNaN(sq[m]) \/ Le(sq[m], sq[k])]

\* Series.idxmax() of a series with a non-missing value: the first label
\* of the largest value.
SeriesIdxMax(sq) ==
    R(CHOOSE k \in DOMAIN sq :
         /\ ~IsNaN(sq[k])
         /\ \A m \in DOMAIN sq : IsNaN(sq[m]) \/ Le(sq[m], sq[k])
         /\ \A m \in 1..(k - 1) : IsNaN(sq[m]) \/ Lt(sq[m], sq[k]))

\* Variant: the row is labelled with the following timestamp.
SummaryRowNextLabel(time_step, res) ==
    [time_step |-> R(time_step + 1),
     total_load |-> SumOver(res.load, DOMAIN res.load),
     total_generation |-> SumOver(res.gen, DOMAIN res.gen),
     max_line_loading |-> SeriesMax(res.loading),
     max_loading_index |->
         IF \A k \in DOMAIN res.loading : IsNaN(res.loading[k]) THEN NaN
         ELSE SeriesIdxMax(res.loading)]

\* The summary row time_series_pf_results appends (lines 459-467).
SummaryRow(time_step, res) ==
    [time_step |-> R(time_step),
     total_load |-> SumOver(res.load, DOMAIN res.load),
     total_generation |-> SumOver(res.gen, DOMAIN res.gen),
     max_line_loading |-> SeriesMax(res.loading),
     max_loading_index |->
         IF \A k \in DOMAIN res.loading : IsNaN(res.loading[k]) THEN NaN
         ELSE SeriesIdxMax(res.loading)]

(***************************************************************************)
(* Stage verdict (handle_pf_results) and relaxations (section 7.1.2)       *)
(***************************************************************************)
\* pf_results.isna().all().all(): every cell of every column is missing
\* (true of the empty frame).
AllMissing(pf_results) ==
    \A k \in DOMAIN pf_results :
        /\ IsNaN(pf_results[k].time_step)
        /\ IsNaN(pf_results[k].total_load)
        /\ IsNaN(pf_results[k].total_generation)
        /\ IsNaN(pf_results[k].max_line_loading)
        /\ IsNaN(pf_results[k].max_loading_index)

\* Variant: a loading of exactly 100 % counts as an overload.
OverloadedFrom100(pf_results) ==
    \E k \in DOMAIN pf_results : Le(R(100), pf_results[k].max_line_loading)

\* (pf_results["max_line_loading"] > 100).any()
Overloaded(pf_results) ==
    \E k \in DOMAIN pf_results : Lt(R(100), pf_results[k].max_line_loading)

\* The value handle_pf_results returns: exc tells whether the run of
\* time_series_pf_results raised, pf_results is the frame it returned.
handle_pf_results(exc, pf_results) ==
    IF exc THEN FALSE
    ELSE IF AllMissing(pf_results) THEN FALSE
    ELSE IF Overloaded(pf_results) THEN FALSE
    ELSE TRUE

\* The mode and the variable flag each run passes: stages 1..5 of the
\* fallback, and 6 for the scaled AC power flow of section 7.1.3.
Mode(k) == IF k \in {1, 6} THEN "ac_pf" ELSE "dc_opf"

\* Variant: every run passes variable = False.
VariableNever(k) == FALSE

Variable(k) == k \in {4, 5}

\* Variant: wind generators are relaxed as well.
RelaxConventionalAndWind(g) ==
    [i \in Ids(g) |->
       IF g[i].controllable /\ g[i].type # "solar"
       THEN [g[i] EXCEPT !.max_p_mw = g[i].p_mw, !.min_p_mw = Zero]
       ELSE g[i]]

\* Stage 3: controllable generators that are not solar or wind by type.
RelaxConventional(g) ==
    [i \in Ids(g) |->
       IF g[i].controllable /\ g[i].type \notin {"solar", "wind"}
       THEN [g[i] EXCEPT !.max_p_mw = g[i].p_mw, !.min_p_mw = Zero]
       ELSE g[i]]

\* Stage 4: all controllable generators.
RelaxAll(g) ==
    [i \in Ids(g) |->
       IF g[i].controllable
       THEN [g[i] EXCEPT !.max_p_mw = g[i].p_mw, !.min_p_mw = Zero]
       ELSE g[i]]

\* Stage 5: load curtailment.
RelaxLoads(ld) ==
    [j \in DOMAIN ld |->
       [ld[j] EXCEPT !.min_p_mw = Mul(ld[j].p_mw, <<1, 10>>),
                     !.max_p_mw = Mul(ld[j].p_mw, R(1)),
                     !.controllable = TRUE]]

\* The network the run of stage k starts from, given the network the failed
\* stage k - 1 left.
Relaxation(k, g, ld) ==
    CASE k = 3 -> [gen |-> RelaxConventional(g), load |-> ld]
      [] k = 4 -> [gen |-> RelaxAll(g), load |-> ld]
      [] k = 5 -> [gen |-> g, load |-> RelaxLoads(ld)]
      [] OTHER -> [gen |-> g, load |-> ld]

\* calculate_scaling_factor and the assignment of net.gen["scaling"].
calculate_scaling_factor(g, ld) ==
    LET total_gen_power ==
            SumOver(Column(g, "p_mw"), {i \in Ids(g) : g[i].in_service})
        total_load_power ==
            SumOver([j \in DOMAIN ld |-> ld[j].p_mw],
                    {j \in DOMAIN ld : ld[j].in_service})
    IN  IF Lt(Zero, total_gen_power)
        THEN Div(total_load_power, total_gen_power) ELSE R(1)

ApplyScaling(g, ld) ==
    [i \in Ids(g) |-> [g[i] EXCEPT !.scaling = calculate_scaling_factor(g, ld)]]

(***************************************************************************)
(* State                                                                   *)
(***************************************************************************)
VARIABLES
    gen,            \* net.gen
    load,           \* net.load
    cached_values,  \* create_values_per_country.cached_values
    has_cached,     \* whether that attribute exists
    time_series,    \* time_series_short, one row per timestamp
    stage,          \* the run in progress: 1..5, 6 for the scaled AC run
    pc,             \* "run": in the time loop; "judge": the loop has ended;
                    \* "end": past section 7.1.3
    t,              \* position of the next timestamp of the loop
    results_list,   \* results_list of the run in progress
    raised,         \* the exception that ended the run, or "none"
    converged,      \* the variable converged of section 7.1.2
    reported,       \* what the cascade has printed as its outcome
    verdicts,       \* return values of the handle_pf_results calls so far
    shortfall,      \* the latest update_loads had more excess than headroom
    recomputed,     \* the latest update_loads recomputed the cached values
    res,            \* net.res_load, net.res_gen, net.res_line as written by
                    \* the latest solver invocation of the run in progress
    attempts,       \* stages whose run has been started, in order
    applied,        \* stages whose relaxation has been applied, in order
    written,        \* limit values last written by a relaxation
    seen,           \* the tables as of the latest solver invocation, the
                    \* position of its timestamp and the categories
                    \* allocated at it
    solver_calls    \* number of solver invocations so far

vars == <<gen, load, cached_values, has_cached, time_series, stage, pc, t,
          results_list, raised, converged, reported, verdicts, shortfall,
          recomputed, res, attempts, applied, written, seen, solver_calls>>

\* State of one create_gen_or_load call (section 4 of main_program.py).
VARIABLES
    net_bus,          \* net.bus, each bus with the coordinates of its
                      \* row of net.bus_geodata
    bus_geodata,      \* the index of net.bus_geodata: the labels of its
                      \* rows in the order they are stored
    gdf,              \* the assets to place: power plants or load regions
    Type,             \* "gen" or "load"
    distribute_gen,   \* the argument distribute_gen
    distribute_load,  \* the argument distribute_load
    element_pos,      \* position in gdf of the next row of the loop
    created_gen,      \* records inserted by pp.create_gen, in order
    created_load,     \* records inserted by pp.create_load, in order
    kdtrees,          \* the KDTree objects constructed for the latest row:
                      \* number of points, and whether it was queried
    mapping_error     \* the exception that ended the call, or "none"

mapping == <<net_bus, bus_geodata, gdf, Type, distribute_gen,
             distribute_load, element_pos, created_gen, created_load, kdtrees, mapping_error>>

\* The latest direct call of allocate_renewable_generation: its number and
\* its arguments.
VARIABLE call

NoCall == [n |-> 0, renewable |-> "none", country_generation |-> NaN]

NoneWritten(g, ld) ==
    [gen |-> [i \in Ids(g) |-> [has |-> FALSE, min_p_mw |-> NaN,
                                max_p_mw |-> NaN]],
     load |-> [j \in DOMAIN ld |-> [has |-> FALSE, min_p_mw |-> NaN,
                                    max_p_mw |-> NaN]]]

\* The cells the relaxation of stage k writes, with the values written.
Written(k, w, g, ld) ==
    CASE k = 3 ->
           [w EXCEPT !.gen = [i \in Ids(g) |->
              IF g[i].controllable /\ g[i].type \notin {"solar", "wind"}
              THEN [has |-> TRUE, min_p_mw |-> g[i].min_p_mw,
                    max_p_mw |-> g[i].max_p_mw]
              ELSE w.gen[i]]]
      [] k = 4 ->
           [w EXCEPT !.gen = [i \in Ids(g) |->
              IF g[i].controllable
              THEN [has |-> TRUE, min_p_mw |-> g[i].min_p_mw,
                    max_p_mw |-> g[i].max_p_mw]
              ELSE w.gen[i]]]
      [] k = 5 ->
           [w EXCEPT !.load = [j \in DOMAIN ld |->
              [has |-> TRUE, min_p_mw |-> ld[j].min_p_mw,
               max_p_mw |-> ld[j].max_p_mw]]]
      [] OTHER -> w

Init ==
    /\ gen \in Fleets
    /\ load = InitLoads
    /\ cached_values = << >>
    /\ has_cached = FALSE
    /\ \E columns \in ColumnSets :
          \E start \in 1..(Len(load_profiles) - NumSteps + 1) :
             time_series = TimeSeriesShort(start, columns)
    /\ stage = 1
    /\ pc = "run"
    /\ t = 1
    /\ results_list = << >>
    /\ raised = "none"
    /\ converged = FALSE
    /\ reported = "none"
    /\ verdicts = << >>
    /\ shortfall = FALSE
    /\ recomputed = FALSE
    /\ res = ResEmpty
    /\ attempts = << 1 >>
    /\ applied = << >>
    /\ written = NoneWritten(gen, load)
    /\ seen = [valid |-> FALSE, at |-> 1, gen |-> gen, load |-> load,
               done |-> {}]
    /\ solver_calls = 0
    /\ net_bus = << >>
    /\ bus_geodata = << >>
    /\ gdf = << >>
    /\ Type = "gen"
    /\ distribute_gen = FALSE
    /\ distribute_load = FALSE
    /\ element_pos = 1
    /\ created_gen = << >>
    /\ created_load = << >>
    /\ kdtrees = << >>
    /\ mapping_error = "none"
    /\ call = NoCall

(***************************************************************************)
(* One iteration of the time loop of time_series_pf_results                *)
(***************************************************************************)
\* update_loads for the timestamp at position t; handle_pf_results and
\* section 7.1.3 pass force_update = True, which reaches update_loads at the
\* first timestamp only.
\* Variant: first_iteration is never reset.
ForceUpdateAlways == TRUE

\* first_iteration (lines 427, 438-440): the force_update the callers pass,
\* True, at the first timestamp and False afterwards.
ForceUpdate == t = 1

\* Line 170: whether create_values_per_country recomputes.
Recomputes(force_update) == force_update \/ ~has_cached

\* Variant: every iteration reads the first row of the time series.
UpdatedFirstRow ==
    update_loads([gen |-> gen, load |-> load, cached |-> cached_values,
                  has_cached |-> has_cached],
                 time_series[1].obs, processed_regions, ForceUpdate,
                 Variable(stage))

Updated ==
    update_loads([gen |-> gen, load |-> load, cached |-> cached_values,
                  has_cached |-> has_cached],
                 time_series[t].obs, processed_regions, ForceUpdate,
                 Variable(stage))

\* The gen table after the three fillna(0) of lines 443-445.
Filled(g) ==
    [i \in Ids(g) |->
       [g[i] EXCEPT !.p_mw = FillNa(g[i].p_mw),
                    !.min_p_mw = FillNa(g[i].min_p_mw),
                    !.max_p_mw = FillNa(g[i].max_p_mw)]]

History == <<converged, reported, attempts, applied, written>>

\* The run ends: handle_pf_results returns its verdict to the cascade (the
\* scaled run of section 7.1.3 is not judged).
Returns(exc, pf_results) ==
    /\ pc' = "judge"
    /\ verdicts' = IF stage <= 5
                   THEN Append(verdicts, handle_pf_results(exc, pf_results))
                   ELSE verdicts

\* update_loads raises (IndexError): the loop ends before the solver is
\* invoked.
StepUpdateRaises(u) ==
    /\ u.raised
    /\ gen' = u.gen
    /\ load' = u.load
    /\ raised' = "IndexError"
    /\ Returns(TRUE, results_list)
    /\ seen' = [seen EXCEPT !.valid = FALSE]
    /\ UNCHANGED <<t, results_list, res, solver_calls>>

\* The tables are updated and the solver is invoked on them.
Invoke(u) ==
    /\ ~u.raised
    /\ gen' = Filled(u.gen)
    /\ load' = u.load
    /\ seen' = [valid |-> TRUE, at |-> t, gen |-> gen', load |-> load',
                done |-> u.done]
    /\ solver_calls' = solver_calls + 1

\* The solver raises (LoadflowNotConverged, OPFNotConverged).
StepSolverRaises(u) ==
    /\ Invoke(u)
    /\ raised' = "NotConverged"
    /\ Returns(TRUE, results_list)
    /\ UNCHANGED <<t, results_list, res>>

\* The solver returns and the summary row is appended; after the last
\* timestamp the frame is returned.
StepRecorded(u) ==
    /\ Invoke(u)
    /\ res' \in SolverResults
    /\ results_list' =
          Append(results_list, SummaryRow(time_series[t].time_step, res'))
    /\ t' = t + 1
    /\ IF t = NumSteps THEN Returns(FALSE, results_list')
       ELSE pc' = "run" /\ UNCHANGED verdicts
    /\ UNCHANGED raised

\* The solver returns a line table without any value and idxmax raises
\* ValueError on it (pandas 3); older pandas returns a missing label, see
\* StepRecorded.
StepIdxmaxRaises(u) ==
    /\ Invoke(u)
    /\ res' \in {r \in SolverResults :
                   \A k \in DOMAIN r.loading : IsNaN(r.loading[k])}
    /\ raised' = "ValueError"
    /\ Returns(TRUE, results_list)
    /\ UNCHANGED <<t, results_list>>

Step ==
    /\ pc = "run"
    /\ \E u \in {Updated} :
          /\ cached_values' = u.cached
          /\ has_cached' = u.has_cached
          /\ shortfall' = u.short
          /\ recomputed' = Recomputes(ForceUpdate)
          /\ \/ StepUpdateRaises(u)
             \/ StepSolverRaises(u)
             \/ StepRecorded(u)
             \/ StepIdxmaxRaises(u)
    /\ UNCHANGED <<time_series, stage, History>>
    /\ UNCHANGED <<mapping, call>>

(***************************************************************************)
(* The cascade of section 7.1.2 and the scaled run of section 7.1.3        *)
(***************************************************************************)
\* The value the latest handle_pf_results call returned.
Verdict == verdicts[Len(verdicts)]

\* The next call of time_series_pf_results begins.
StartRun(k) ==
    /\ stage' = k
    /\ pc' = "run"
    /\ t' = 1
    /\ results_list' = << >>
    /\ raised' = "none"
    /\ res' = ResEmpty
    /\ attempts' = Append(attempts, k)
    /\ seen' = [seen EXCEPT !.valid = FALSE]

\* Lines 437-447: the return value of the AC run is dropped, converged is
\* set to False and the first DC OPF run begins.
AfterStage1 ==
    /\ pc = "judge"
    /\ stage = 1
    /\ converged' = FALSE
    /\ StartRun(2)
    /\ UNCHANGED <<gen, load, cached_values, has_cached, time_series,
                   reported, verdicts, shortfall, recomputed, applied, written,
                   solver_calls>>
    /\ UNCHANGED <<mapping, call>>

\* A DC OPF run returned True: the cascade ends and section 7.1.3 is
\* skipped.
Converge ==
    /\ pc = "judge"
    /\ stage \in 2..5
    /\ Verdict
    /\ converged' = TRUE
    /\ reported' = "converged"
    /\ pc' = "end"
    /\ UNCHANGED <<gen, load, cached_values, has_cached, time_series, stage,
                   t, results_list, raised, verdicts, shortfall,
                   recomputed, attempts, applied, written, seen, res,
                   solver_calls>>
    /\ UNCHANGED <<mapping, call>>

\* A DC OPF run of stage 2..4 returned False: the relaxation of the next
\* stage is applied and its run begins.
Advance ==
    /\ pc = "judge"
    /\ stage \in 2..4
    /\ ~Verdict
    /\ converged' = FALSE
    /\ \E net \in {Relaxation(stage + 1, gen, load)} :
          /\ gen' = net.gen
          /\ load' = net.load
          /\ written' = Written(stage + 1, written, net.gen, net.load)
    /\ applied' = Append(applied, stage + 1)
    /\ StartRun(stage + 1)
    /\ UNCHANGED <<cached_values, has_cached, time_series, reported,
                   verdicts, shortfall, recomputed, solver_calls>>
    /\ UNCHANGED <<mapping, call>>

\* The run of stage 5 returned False: non-convergence is printed with the
\* diagnostics, then section 7.1.3 sets the scaling factor and begins the
\* scaled AC power flow run.
Exhausted ==
    /\ pc = "judge"
    /\ stage = 5
    /\ ~Verdict
    /\ converged' = FALSE
    /\ reported' = "not converged"
    /\ gen' = ApplyScaling(gen, load)
    /\ StartRun(6)
    /\ UNCHANGED <<load, cached_values, has_cached, time_series, verdicts,
                   shortfall, recomputed, applied, written, solver_calls>>
    /\ UNCHANGED <<mapping, call>>

\* Variant: the scaled run is repeated.
AfterScaledAgain ==
    /\ pc = "judge"
    /\ stage = 6
    /\ StartRun(6)
    /\ UNCHANGED <<gen, load, cached_values, has_cached, time_series,
                   converged, reported, verdicts, shortfall, recomputed,
                   applied, written, solver_calls>>
    /\ UNCHANGED <<mapping, call>>

\* The scaled run has ended, with a frame or with a caught exception.
AfterScaled ==
    /\ pc = "judge"
    /\ stage = 6
    /\ pc' = "end"
    /\ UNCHANGED <<gen, load, cached_values, has_cached, time_series, stage,
                   t, results_list, raised, converged, reported, verdicts,
                   shortfall, recomputed, attempts, applied, written, seen,
                   res, solver_calls>>
    /\ UNCHANGED <<mapping, call>>

Next == Step \/ AfterStage1 \/ Converge \/ Advance \/ Exhausted
            \/ AfterScaled

Spec == Init /\ [][Next]_<<vars, mapping, call>>

(***************************************************************************)
(* create_gen_or_load (_4_mapping_gen_and_load.py): placing assets on      *)
(* buses                                                                   *)
(***************************************************************************)
\* Largest number of rows of gdf.
MaxAssets == 3

Bus(name, zone, in_service, vn_kv, x, y) ==
    [name |-> name, zone |-> zone, in_service |-> in_service,
     vn_kv |-> vn_kv, x |-> x, y |-> y]

\* Real substations and virtual buses in both zones; bus 4 (GB) and bus 6
\* (DE) are out of service.
NetMixed ==
    << Bus(<<"way", 1>>, "GB", TRUE, 380, 1, 2),
       Bus(<<"relation", 2>>, "GB", TRUE, 220, 3, 1),
       Bus(<<"virtual", 3>>, "GB", TRUE, 220, 2, 2),
       Bus(<<"way", 4>>, "GB", FALSE, 110, 5, 1),
       Bus(<<"way", 5>>, "DE", TRUE, 380, 8, 1),
       Bus(<<"virtual", 6>>, "DE", FALSE, 380, 7, 1) >>

\* DE has buses in service, none of them a real substation.
NetNoSubstation ==
    << Bus(<<"way", 1>>, "GB", TRUE, 380, 1, 2),
       Bus(<<"relation", 2>>, "GB", TRUE, 220, 3, 1),
       Bus(<<"virtual", 3>>, "GB", TRUE, 220, 2, 2),
       Bus(<<"way", 4>>, "GB", TRUE, 110, 5, 1),
       Bus(<<"virtual", 5>>, "DE", TRUE, 380, 8, 1),
       Bus(<<"virtual", 6>>, "DE", TRUE, 380, 7, 1) >>

\* The only real substation of DE is out of service.
NetOutOfService ==
    << Bus(<<"way", 1>>, "GB", TRUE, 220, 1, 2),
       Bus(<<"relation", 2>>, "GB", TRUE, 220, 3, 2),
       Bus(<<"virtual", 3>>, "GB", FALSE, 220, 2, 2),
       Bus(<<"way", 4>>, "GB", TRUE, 380, 5, 1),
       Bus(<<"way", 5>>, "DE", FALSE, 380, 8, 1),
       Bus(<<"virtual", 6>>, "DE", TRUE, 380, 7, 1) >>

Networks == {NetMixed, NetNoSubstation, NetOutOfService}

\* A row of gdf; geometry is an axis-parallel rectangle.
Asset(name, zone, x0, x1, y0, y1, fueltype, technology, size) ==
    [name |-> name, id |-> name, zone |-> zone,
     geometry |-> [x0 |-> x0, x1 |-> x1, y0 |-> y0, y1 |-> y1],
     fueltype |-> fueltype, technology |-> technology,
     capacity |-> size, load_factor |-> size]

AssetPool ==
    { Asset("A", "GB", 0, 4, 0, 4, "coal", "Steam Turbine", R(2)),
      Asset("B", "GB", 4, 6, 0, 2, "wind", "onwind", R(1)),
      Asset("C", "DE", 6, 8, 0, 2, "solar", "solar", R(2)),
      Asset("D", "FR", 0, 2, 0, 2, "wind", "offwind", R(3)),
      Asset("E", "GB", 4, 6, 0, 2, "coal", "Steam Turbine", Zero) }

\* The ascending sequence of a set of row labels (a pandas Index of a
\* filtered frame keeps the order of the rows).
RECURSIVE Index(_)
Index(S) ==
    IF S = {} THEN << >>
    ELSE LET m == CHOOSE x \in S : \A y \in S : x <= y
         IN  << m >> \o Index(S \ {m})

\* Line 100.
country_buses(element) ==
    Index({b \in DOMAIN net_bus : net_bus[b].zone = element.zone})

\* str.startswith(("relation", "way")); a name is its prefix and a number.
IsRealName(name) == name[1] \in {"relation", "way"}

\* Lines 103-111: real substations of the zone that are in service.
real_country_buses(element) ==
    Index({b \in DOMAIN net_bus :
             /\ net_bus[b].zone = element.zone
             /\ IsRealName(net_bus[b].name)
             /\ net_bus[b].in_service})

\* The labels of a filtered frame.
Labels(index) == {index[k] : k \in DOMAIN index}

\* buses_geodata[buses_geodata.index.isin(index)]: the rows of
\* net.bus_geodata with these labels, in the order they are stored.
GeodataOf(index) == SelectSeq(bus_geodata, LAMBDA b : b \in Labels(index))

\* Lines 109-111.
real_country_buses_geodata(element) ==
    GeodataOf(real_country_buses(element))

\* geometry.within: strictly inside the rectangle.
Within(b, polygon) ==
    /\ polygon.x0 < net_bus[b].x /\ net_bus[b].x < polygon.x1
    /\ polygon.y0 < net_bus[b].y /\ net_bus[b].y < polygon.y1

\* Lines 114-116.
buses_within_polygon(element) ==
    SelectSeq(real_country_buses_geodata(element),
              LAMBDA b : Within(b, element.geometry))

\* Lines 129-133.
substations_with_lowest_voltage(element) ==
    LET within == buses_within_polygon(element)
    IN  SelectSeq(within,
                  LAMBDA b : \A c \in Labels(within) :
                                net_bus[b].vn_kv <= net_bus[c].vn_kv)

\* Four times the squared Euclidean distance of bus b to the centroid of
\* the rectangle (line 118).
Dist2(b, polygon) ==
    LET dx == 2 * net_bus[b].x - (polygon.x0 + polygon.x1)
        dy == 2 * net_bus[b].y - (polygon.y0 + polygon.y1)
    IN  dx * dx + dy * dy

\* KDTree(points).query(element_coords): the positions of the points at
\* the least distance; on a tree without points the position past the end.
KDTreeQuery(index, polygon) ==
    IF index = << >> THEN {Len(index) + 1}
    ELSE {p \in DOMAIN index :
            \A q \in DOMAIN index :
               Dist2(index[p], polygon) <= Dist2(index[q], polygon)}

Tree(index, queried) == [n |-> Len(index), queried |-> queried]

Resolved(bus, trees) == [error |-> "none", bus |-> bus, kdtrees |-> trees]

Failed(error, trees) == [error |-> error, bus |-> 0, kdtrees |-> trees]

\* index[position]: the label at a position of a pandas Index, or
\* IndexError past its end.
At(index, p, trees) ==
    IF p \in DOMAIN index THEN Resolved(index[p], trees)
    ELSE Failed("IndexError", trees)

\* Variant: the substation of lowest voltage is not preferred.
ClosestBusNearestOnly(element) ==
    LET real == real_country_buses(element)
        geodata == real_country_buses_geodata(element)
    IN  (IF geodata = << >>
         THEN {Failed("ValueError", << Tree(geodata, FALSE) >>)}
         ELSE {})
        \cup {At(real, p, << Tree(geodata, TRUE) >>) :
                 p \in KDTreeQuery(geodata, element.geometry)}

\* Lines 99-147: the outcomes of the search for closest_bus.  The default
\* tree is built over the geodata rows of the real substations, and the
\* position it answers is looked up in real_country_buses.index.  A KDTree
\* over no points either raises ValueError when constructed or is
\* constructed and answers the query with the position past the end,
\* depending on the library version.
ClosestBus(element) ==
    LET real == real_country_buses(element)
        geodata == real_country_buses_geodata(element)
        lowest == substations_with_lowest_voltage(element)
    IN  IF buses_within_polygon(element) # << >>
        THEN {Resolved(lowest[p],
                       << Tree(geodata, FALSE), Tree(lowest, TRUE) >>) :
                 p \in KDTreeQuery(lowest, element.geometry)}
        ELSE (IF geodata = << >>
              THEN {Failed("ValueError", << Tree(geodata, FALSE) >>)}
              ELSE {})
             \cup {At(real, p, << Tree(geodata, TRUE) >>) :
                      p \in KDTreeQuery(geodata, element.geometry)}

\* Lines 167-176: with distribute_gen the bus found is replaced by the
\* bus at the position, in country_buses.index, that a tree over the
\* geodata rows of all buses of the zone answers.
GenBus(element) ==
    LET country == country_buses(element)
        geodata == GeodataOf(country)
    IN  UNION { IF o.error = "none" /\ distribute_gen = TRUE
                THEN (IF geodata = << >>
                      THEN {Failed("ValueError",
                                   Append(o.kdtrees,
                                          Tree(geodata, FALSE)))}
                      ELSE {})
                     \cup {At(country, p,
                              Append(o.kdtrees, Tree(geodata, TRUE))) :
                              p \in KDTreeQuery(geodata, element.geometry)}
                ELSE {o} : o \in ClosestBus(element) }

\* Variant: the region is never split over the buses inside it.
LoadRecordsNeverSplit(element, closest_bus) ==
    IF distribute_load # TRUE
    THEN << [CreateLoad(closest_bus, element.id, element.load_factor, 1)
               EXCEPT !.num = NaN] >>
    ELSE << CreateLoad(closest_bus, element.id, element.load_factor, 1) >>

\* Lines 196-226: the load records of one region.
LoadRecords(element, closest_bus) ==
    LET within == buses_within_polygon(element)
    IN  IF distribute_load # TRUE
        THEN << [CreateLoad(closest_bus, element.id, element.load_factor, 1)
                   EXCEPT !.num = NaN] >>
        ELSE IF Len(within) > 0
        THEN [k \in DOMAIN within |->
                CreateLoad(within[k], element.id, element.load_factor,
                           Len(within))]
        ELSE << CreateLoad(closest_bus, element.id, element.load_factor,
                           1) >>

\* The row of gdf the loop is at.
Element == gdf[element_pos]

InLoop == mapping_error = "none" /\ element_pos \in DOMAIN gdf

\* One iteration of the loop with Type "gen": a generator is created.
MapGen ==
    /\ InLoop
    /\ Type = "gen"
    /\ \E o \in GenBus(Element) :
          /\ o.error = "none"
          /\ kdtrees' = o.kdtrees
          /\ created_gen' =
                Append(created_gen,
                       CreateGen(o.bus, Element.fueltype,
                                 Element.technology, Element.capacity))
    /\ element_pos' = element_pos + 1
    /\ UNCHANGED <<net_bus, bus_geodata, gdf, Type, distribute_gen,
                   distribute_load,
                   created_load, mapping_error>>
    /\ UNCHANGED <<vars, call>>

\* One iteration of the loop with Type "load": the load records of the
\* region are created.
MapLoad ==
    /\ InLoop
    /\ Type = "load"
    /\ \E o \in ClosestBus(Element) :
          /\ o.error = "none"
          /\ kdtrees' = o.kdtrees
          /\ created_load' = created_load \o LoadRecords(Element, o.bus)
    /\ element_pos' = element_pos + 1
    /\ UNCHANGED <<net_bus, bus_geodata, gdf, Type, distribute_gen,
                   distribute_load,
                   created_gen, mapping_error>>
    /\ UNCHANGED <<vars, call>>

\* The search for closest_bus raises: the exception leaves the loop and the
\* call.
MapRaises ==
    /\ InLoop
    /\ \E o \in (IF Type = "gen" THEN GenBus(Element)
                ELSE ClosestBus(Element)) :
          /\ o.error # "none"
          /\ kdtrees' = o.kdtrees
          /\ mapping_error' = o.error
    /\ UNCHANGED <<net_bus, bus_geodata, gdf, Type, distribute_gen,
                   distribute_load,
                   element_pos, created_gen, created_load>>
    /\ UNCHANGED <<vars, call>>

\* The sequences over the pool without repetition, of length up to n.
RECURSIVE Rows(_, _)
Rows(pool, n) ==
    IF n = 0 THEN {<< >>}
    ELSE {<< >>} \cup
         UNION {{<< a >> \o rest : rest \in Rows(pool \ {a}, n - 1)} :
                   a \in pool}

\* One call of create_gen_or_load with Type "gen" or with Type "load";
\* net.bus is any of the networks.
InitMapping ==
    /\ net_bus \in Networks
    /\ gdf \in Rows(AssetPool, MaxAssets) \ {<< >>}
    /\ \/ Type = "gen" /\ distribute_gen \in BOOLEAN
                       /\ distribute_load = FALSE
       \/ Type = "load" /\ distribute_gen = FALSE
                        /\ distribute_load \in BOOLEAN
    /\ element_pos = 1
    /\ created_gen = << >>
    /\ created_load = << >>
    /\ kdtrees = << >>
    /\ mapping_error = "none"
    /\ call = NoCall
    /\ gen = << >>
    /\ load = << >>
    /\ cached_values = << >>
    /\ has_cached = FALSE
    /\ time_series = << >>
    /\ stage = 0
    /\ pc = "build"
    /\ t = 1
    /\ results_list = << >>
    /\ raised = "none"
    /\ converged = FALSE
    /\ reported = "none"
    /\ verdicts = << >>
    /\ shortfall = FALSE
    /\ recomputed = FALSE
    /\ res = ResEmpty
    /\ attempts = << >>
    /\ applied = << >>
    /\ written = NoneWritten(gen, load)
    /\ seen = [valid |-> FALSE, at |-> 1, gen |-> gen, load |-> load,
               done |-> {}]
    /\ solver_calls = 0

\* main_program.py reads net.bus and net.bus_geodata from files written row
\* by row from one network and filters both by the same labels: every bus
\* has its geodata row, at the same position.
InitBuild ==
    /\ InitMapping
    /\ bus_geodata = Index(DOMAIN net_bus)

NextBuild == MapGen \/ MapLoad \/ MapRaises

SpecBuild == InitBuild /\ [][NextBuild]_<<vars, mapping, call>>

Reverse(index) == [k \in DOMAIN index |-> index[Len(index) + 1 - k]]

\* Geodata tables of a network: every bus with its row at its own
\* position, the rows in the opposite order, the row of the first bus
\* missing, both, and rows for the first two buses only.
GeodataTables(bus) ==
    LET index == Index(DOMAIN bus)
    IN  {index, Reverse(index), Tail(index), Reverse(Tail(index)),
         SubSeq(index, 1, 2)}

\* create_gen_or_load called on a network whose geodata table is any of
\* these.
InitGeodata ==
    /\ InitMapping
    /\ bus_geodata \in GeodataTables(net_bus)

SpecGeodata == InitGeodata /\ [][NextBuild]_<<vars, mapping, call>>

(***************************************************************************)
(* allocate_renewable_generation called on its own                         *)
(***************************************************************************)
\* Largest number of calls in a row.
MaxCalls == 3

\* The values of country_generation: a missing observation, and
\* observations below, at and above the capacity of a category.
Observations == {NaN, R(1), R(2), R(5)}

\* The gen table as update_loads hands it to the allocations: country and
\* shares set by create_values_per_country, solar tech set by line 230.
Prepared(fleet) ==
    SolarTech(create_values_per_country(
                  [gen |-> fleet, cached |-> << >>, has_cached |-> FALSE],
                  processed_regions, TRUE).gen)

InitAllocate ==
    /\ gen \in {Prepared(fleet) : fleet \in Fleets}
    /\ call = NoCall
    /\ load = InitLoads
    /\ cached_values = << >>
    /\ has_cached = FALSE
    /\ time_series = << >>
    /\ stage = 0
    /\ pc = "allocate"
    /\ t = 1
    /\ results_list = << >>
    /\ raised = "none"
    /\ converged = FALSE
    /\ reported = "none"
    /\ verdicts = << >>
    /\ shortfall = FALSE
    /\ recomputed = FALSE
    /\ res = ResEmpty
    /\ attempts = << >>
    /\ applied = << >>
    /\ written = NoneWritten(gen, load)
    /\ seen = [valid |-> FALSE, at |-> 1, gen |-> gen, load |-> load,
               done |-> {}]
    /\ solver_calls = 0
    /\ net_bus = << >>
    /\ bus_geodata = << >>
    /\ gdf = << >>
    /\ Type = "gen"
    /\ distribute_gen = FALSE
    /\ distribute_load = FALSE
    /\ element_pos = 1
    /\ created_gen = << >>
    /\ created_load = << >>
    /\ kdtrees = << >>
    /\ mapping_error = "none"

\* What a call of allocate_renewable_generation leaves alone.
AllocateFrame ==
    UNCHANGED <<load, cached_values, has_cached, time_series, stage, pc, t,
                results_list, converged, reported, verdicts, recomputed,
                res, attempts, applied, written, seen, solver_calls,
                mapping>>

\* One call with a category the first check accepts.
Allocate ==
    /\ call.n < MaxCalls
    /\ raised = "none"
    /\ \E renewable \in {"Solar", "onwind", "offwind", "wind"} :
          \E country_generation \in Observations :
             /\ call' = [n |-> call.n + 1, renewable |-> renewable,
                         country_generation |-> country_generation]
             /\ \E r \in {Allocation(gen, country_generation, renewable)} :
                   gen' = r.gen /\ shortfall' = r.short
    /\ UNCHANGED raised
    /\ AllocateFrame

\* One call with a category the first check rejects (lines 105-108).
AllocateInvalid ==
    /\ call.n < MaxCalls
    /\ raised = "none"
    /\ \E country_generation \in Observations :
          call' = [n |-> call.n + 1, renewable |-> "solar",
                   country_generation |-> country_generation]
    /\ raised' = "ValueError"
    /\ UNCHANGED <<gen, shortfall>>
    /\ AllocateFrame

NextAllocate == Allocate \/ AllocateInvalid

SpecAllocate == InitAllocate /\ [][NextAllocate]_<<vars, mapping, call>>


(***************************************************************************)
(* Properties of the fallback cascade                                      *)
(***************************************************************************)
\* The runs of the cascade (stages 1..5) started so far, in order.
CascadeAttempts == SelectSeq(attempts, LAMBDA k : k <= 5)

\* The latest run has ended and handle_pf_results has returned its verdict.
Judged == pc = "judge" /\ stage \in 1..5

\* C1: the stages are attempted in the order 1, 2, 3, 4, 5; stage k+1 is
\* attempted only if every stage 1..k was judged failed, and once a stage is
\* judged successful no later stage is attempted and no later stage's
\* relaxation is applied.
C1_OrderedStopAtFirstSuccess ==
    /\ \A n \in DOMAIN CascadeAttempts : CascadeAttempts[n] = n
    /\ \A n \in DOMAIN verdicts :
          verdicts[n] =>
             /\ Len(CascadeAttempts) <= n
             /\ \A m \in DOMAIN applied : applied[m] <= n

\* C2: the only transitions of the protocol are stage k -> stage k+1 on
\* failure, stage k -> Converged on success and stage 5 -> Failed on
\* failure; no stage is run twice, none is returned to, and at most five
\* stage runs are made.
C2_OnlyForwardTransitions ==
    [][Judged =>
         /\ Verdict => pc' = "end" /\ converged' /\ stage' = stage
         /\ (~Verdict /\ stage < 5) => pc' = "run" /\ stage' = stage + 1
         /\ (~Verdict /\ stage = 5) => reported' = "not converged"
         /\ Len(SelectSeq(attempts', LAMBDA k : k <= 5)) <= 5]_vars

AllResultsMissing ==
    /\ raised = "none"
    /\ Len(results_list) = NumSteps
    /\ \A k \in DOMAIN results_list :
          results_list[k] = SummaryRow(time_series[k].time_step, ResMissing)

\* C4: a run whose solver result is all missing at every time step is
\* judged failed by handle_pf_results.
C4_AllMissingJudgedFailed ==
    (Judged /\ AllResultsMissing) => ~Verdict

\* C5: at every solver invocation of stages 3..5 each limit value written
\* by a relaxation so far, and not rewritten by a later relaxation, is the
\* value the solver sees.
C5_RelaxationsInPlace ==
    (seen.valid /\ stage \in 3..5) =>
       /\ \A i \in Ids(gen) :
             written.gen[i].has =>
                /\ seen.gen[i].min_p_mw = written.gen[i].min_p_mw
                /\ seen.gen[i].max_p_mw = written.gen[i].max_p_mw
       /\ \A j \in DOMAIN load :
             written.load[j].has =>
                /\ seen.load[j].min_p_mw = written.load[j].min_p_mw
                /\ seen.load[j].max_p_mw = written.load[j].max_p_mw
                /\ seen.load[j].controllable

\* The solver is invoked in stage 5 on limits that the relaxations of
\* stages 3 or 4 and of stage 5 changed.
C5_Witness ==
    /\ seen.valid /\ stage = 5
    /\ applied = <<3, 4, 5>>
    /\ \E i \in Ids(gen) :
          /\ gen[i].type = "coal"
          /\ written.gen[i].has
          /\ seen.gen[i].min_p_mw = Zero
          /\ Lt(Zero, FleetTwoCountries[i].min_p_mw)
    /\ \E j \in DOMAIN load :
          /\ written.load[j].has
          /\ seen.load[j].min_p_mw # InitLoads[j].min_p_mw

SolverFailed ==
    \/ raised \in {"NotConverged", "ValueError"}
    \/ \E k \in DOMAIN results_list :
          results_list[k] = SummaryRow(time_series[k].time_step, ResMissing)

\* C7: a solver failure (an exception or an unusable result) at any time
\* step of a stage is turned into the outcome 'stage failed', and a cascade
\* that ends without convergence has reported non-convergence.
C7_SolverFailureIsStageFailed ==
    /\ (Judged /\ SolverFailed) => ~Verdict
    /\ (pc = "end" /\ ~converged) => reported = "not converged"

\* C8: no generator's p_mw exceeds its p_mw_original.
C8_NeverAboveNameplate ==
    \A i \in Ids(gen) : ~Lt(gen[i].p_mw_original, gen[i].p_mw)

\* The units of technology T in country C (solar by fuel type, wind by
\* technology) and the time-series column holding their observation.
UnitsOf(g, C, T) ==
    {i \in Ids(g) :
        /\ BusZone[g[i].bus] = C
        /\ IF T = "solar" THEN g[i].type = "solar" ELSE g[i].tech = T}

ObservationOf(C, T) ==
    << IF C = "GB" THEN "GB_UKM" ELSE C,
       CASE T = "solar" -> "solar"
         [] T = "onwind" -> "onshore"
         [] T = "offwind" -> "offshore" >>

Countries == {CountryCode(processed_regions[n].country) :
                 n \in DOMAIN processed_regions}

\* C9: after update_loads has processed a time step with an observation g
\* for technology T of country C, whose T units have nonzero total
\* nameplate, and no allocation of the step had more excess than headroom,
\* the p_mw of C's T units sum to min(g, total nameplate).
C9_GroupSumIsCappedObservation ==
    (seen.valid /\ ~Variable(stage) /\ ~shortfall) =>
       \A C \in Countries : \A T \in {"solar", "onwind", "offwind"} :
          LET row == time_series[seen.at].obs
              units == UnitsOf(seen.gen, C, T)
              total == SumOver(Column(seen.gen, "p_mw_original"), units)
          IN  (/\ ObservationOf(C, T) \in DOMAIN row
               /\ ~IsNaN(row[ObservationOf(C, T)])
               /\ Lt(Zero, total)) =>
                 SumOver(Column(seen.gen, "p_mw"), units)
                    = Min2(row[ObservationOf(C, T)], total)

C11_CacheReusedWithoutForce ==
    [][pc = "run" =>
          /\ recomputed' => t = 1
          /\ ~recomputed' =>
                /\ has_cached /\ t > 1
                /\ cached_values' = cached_values
                /\ has_cached' = has_cached
                /\ \A i \in Ids(gen) :
                      gen'[i].normed_p_mw = gen[i].normed_p_mw]_vars

\* The second time step of a run has been processed on the cache of the
\* first.
C11_Witness ==
    /\ has_cached /\ ~recomputed
    /\ seen.valid /\ seen.at = 2
    /\ \E i \in Ids(gen) : gen[i].normed_p_mw = <<1, 3>>

\* C12: the summary rows of a run are those of the timestamps of the time
\* series, in its order, one per timestamp once the run has returned, and
\* the latest row holds the figures of the solver results of its timestamp.
C12_OneRowPerTimestampInOrder ==
    /\ Len(results_list) <= NumSteps
    /\ \A k \in DOMAIN results_list :
          results_list[k].time_step = R(time_series[k].time_step)
    /\ (pc = "judge" /\ raised = "none") => Len(results_list) = NumSteps
    /\ (seen.valid /\ raised = "none") =>
          /\ Len(results_list) = seen.at
          /\ results_list[seen.at].total_load
                = SumOver(res.load, DOMAIN res.load)
          /\ results_list[seen.at].total_generation
                = SumOver(res.gen, DOMAIN res.gen)
          /\ results_list[seen.at].max_line_loading = SeriesMax(res.loading)

\* A run has returned rows that differ from one timestamp to the next.
C12_Witness ==
    /\ pc = "judge" /\ raised = "none"
    /\ Len(results_list) = NumSteps
    /\ results_list[1].max_line_loading = R(101)
    /\ results_list[NumSteps].max_line_loading = R(100)
    /\ res = ResNormal

\* update_loads as a run without the variable flag would apply it at the
\* timestamp at position t.
FullUpdate ==
    update_loads([gen |-> gen, load |-> load, cached |-> cached_values,
                  has_cached |-> has_cached],
                 time_series[t].obs, processed_regions, ForceUpdate, FALSE)

\* C13: in every run each solver invocation is preceded by the update of
\* the loads and of the renewable generation from the observations of its
\* timestamp.
C13_LoadsAndGenerationBeforeSolve ==
    [][solver_calls' # solver_calls =>
          \E u \in {FullUpdate} :
             /\ gen' = Filled(u.gen)
             /\ load' = u.load]_vars

\* C13, as the program behaves: every solver invocation sees the tables
\* update_loads left for its timestamp; the loads are those of the
\* timestamp's observation in every run; the renewable generation is
\* allocated from the timestamp's observations in the runs without the
\* variable flag (stages 1..3 and the scaled run), while in stages 4 and 5
\* no generator's p_mw, min_p_mw or max_p_mw is touched.
C13_LoadsEveryRunGenerationUnlessVariable ==
    [][solver_calls' # solver_calls =>
          /\ pc = "run"
          /\ seen'.valid /\ seen'.at = t
          /\ seen'.gen = gen' /\ seen'.load = load'
          /\ \A n \in DOMAIN processed_regions :
                LET region == processed_regions[n]
                    col == <<Prefix(region), "load">>
                IN  col \in DOMAIN time_series[t].obs =>
                       \A j \in DOMAIN load :
                          load[j].name = region.id =>
                             load'[j].p_mw =
                                Div(Mul(time_series[t].obs[col],
                                        region.load_factor), load[j].num)
          /\ stage \in {4, 5} =>
                \A i \in Ids(gen) :
                   /\ gen'[i].p_mw = FillNa(gen[i].p_mw)
                   /\ gen'[i].min_p_mw = FillNa(gen[i].min_p_mw)
                   /\ gen'[i].max_p_mw = FillNa(gen[i].max_p_mw)
          /\ stage \notin {4, 5} =>
                \E u \in {FullUpdate} : gen' = Filled(u.gen)]_vars

\* The solver has been invoked in stage 4 at a timestamp whose observations
\* differ from those of the timestamp before, and in stage 1 likewise.
C13_Witness ==
    /\ seen.valid /\ stage = 4 /\ seen.at = 2
    /\ time_series[1].obs # time_series[2].obs
    /\ \E j \in DOMAIN load : load[j].p_mw = R(2)

RenewableTechs == {"solar", "onwind", "offwind"}

\* C14: when the time series has no column for a (country, technology)
\* pair, update_loads does not raise and the pair's units keep their p_mw,
\* min_p_mw and max_p_mw through the time step.
C14_NoColumnNoRedistribution ==
    [][pc = "run" =>
          \A C \in Countries : \A T \in RenewableTechs :
             ObservationOf(C, T) \notin DOMAIN time_series[t].obs =>
                /\ raised' # "IndexError"
                /\ \A i \in UnitsOf(gen, C, T) :
                      /\ gen'[i].p_mw = FillNa(gen[i].p_mw)
                      /\ gen'[i].min_p_mw = FillNa(gen[i].min_p_mw)
                      /\ gen'[i].max_p_mw = FillNa(gen[i].max_p_mw)]_vars

\* C15: a time step whose observation for a technology of a country is a
\* missing data point still yields its summary row when the solver
\* returns, and the units of that technology keep the p_mw they had at the
\* prior step.
C15_MissingObservationKeepsDispatch ==
    [][(pc = "run" /\ raised' # "IndexError") =>
          /\ raised' = "none" => Len(results_list') = t
          /\ \A C \in Countries : \A T \in RenewableTechs :
                (/\ ObservationOf(C, T) \in DOMAIN time_series[t].obs
                 /\ IsNaN(time_series[t].obs[ObservationOf(C, T)])) =>
                   \A i \in UnitsOf(gen, C, T) :
                      gen'[i].p_mw = gen[i].p_mw]_vars

\* The load records of a region and the sum of their p_mw.
RecordsOf(ld, id) == {j \in DOMAIN ld : ld[j].name = id}

RegionTotal(ld, id) ==
    SumOver([j \in DOMAIN ld |-> ld[j].p_mw], RecordsOf(ld, id))

\* C17: the p_mw of the load records of a region sum to the region's
\* demand when the records are created, and to the region's load of the
\* timestamp after every time step of update_loads.
C17_SharesSumToDemand ==
    /\ (stage = 1 /\ pc = "run" /\ t = 1) =>
          \A n \in DOMAIN loads_NUTS3 :
             /\ Cardinality(RecordsOf(load, loads_NUTS3[n].id))
                   = Len(loads_NUTS3[n].buses)
             /\ RegionTotal(load, loads_NUTS3[n].id)
                   = loads_NUTS3[n].load_factor
    /\ seen.valid =>
          \A n \in DOMAIN processed_regions :
             LET region == processed_regions[n]
                 row == time_series[seen.at].obs
             IN  <<Prefix(region), "load">> \in DOMAIN row =>
                    RegionTotal(seen.load, region.id)
                       = Mul(row[<<Prefix(region), "load">>],
                             region.load_factor)

\* The two records of a region have been updated to half the region's load
\* each.
C17_Witness ==
    /\ seen.valid
    /\ Cardinality(RecordsOf(seen.load, "UKC")) = 2
    /\ \A j \in RecordsOf(seen.load, "UKC") : seen.load[j].p_mw = R(1)
    /\ RegionTotal(seen.load, "UKC") = R(2)

(***************************************************************************)
(* Properties of create_gen_or_load                                        *)
(***************************************************************************)
\* The buses of the zone of the element that are in service.
InServiceBuses(element) ==
    {b \in DOMAIN net_bus :
       net_bus[b].zone = element.zone /\ net_bus[b].in_service}

\* The real substations among them.
InServiceSubstations(element) ==
    {b \in InServiceBuses(element) : IsRealName(net_bus[b].name)}

\* The candidate buses the mode of the call asks for.
RequiredCandidates(element) ==
    IF Type = "gen" /\ distribute_gen
    THEN InServiceBuses(element)
    ELSE InServiceSubstations(element)

\* C16: when the zone of an asset has no candidate bus in service, the call
\* fails at that asset with NoEligibleBusError, no KDTree having been
\* constructed or queried over the empty candidate set, and no record is
\* created for the asset.
C16_EmptyCandidatesRaiseNoEligibleBusError ==
    [][(InLoop /\ RequiredCandidates(Element) = {}) =>
          /\ mapping_error' = "NoEligibleBusError"
          /\ \A k \in DOMAIN kdtrees' : kdtrees'[k].n # 0
          /\ created_gen' = created_gen
          /\ created_load' = created_load
          /\ element_pos' = element_pos]_mapping

\* The candidates that lie within the footprint of the element.
CandidatesInside(element) ==
    {b \in InServiceSubstations(element) : Within(b, element.geometry)}

\* Bus b is at least as near to the element as every bus of S.
NearestOf(b, S, element) ==
    \A c \in S : Dist2(b, element.geometry) <= Dist2(c, element.geometry)

\* C18: in the default generator mode a generator whose zone has a real
\* substation in service is bound to one of them: if some lie within its
\* footprint, to the nearest of those of minimum voltage level inside,
\* otherwise to the nearest of the zone.
C18_DefaultModePrefersLowestVoltageInside ==
    [][(InLoop /\ Type = "gen" /\ ~distribute_gen
           /\ InServiceSubstations(Element) # {}) =>
          /\ mapping_error' = "none"
          /\ Len(created_gen') = element_pos
          /\ LET bus == created_gen'[element_pos].bus
                 inside == CandidatesInside(Element)
                 lowest == {b \in inside :
                              \A c \in inside :
                                 net_bus[b].vn_kv <= net_bus[c].vn_kv}
             IN  /\ bus \in InServiceSubstations(Element)
                 /\ inside # {} => bus \in lowest
                                      /\ NearestOf(bus, lowest, Element)
                 /\ inside = {} =>
                       NearestOf(bus, InServiceSubstations(Element),
                                 Element)]_mapping

\* Asset A has been bound to the 220 kV substation inside its footprint
\* although the 380 kV one inside is nearer, and asset B, with no candidate
\* inside, to the nearest substation of its zone.
C18_Witness ==
    /\ Type = "gen" /\ ~distribute_gen
    /\ net_bus = NetMixed
    /\ \E k \in DOMAIN created_gen :
          gdf[k].name = "A" /\ created_gen[k].bus = 2
             /\ Dist2(1, gdf[k].geometry) < Dist2(2, gdf[k].geometry)
    /\ \E k \in DOMAIN created_gen :
          gdf[k].name = "B" /\ created_gen[k].bus = 2
             /\ CandidatesInside(gdf[k]) = {}

\* C19: with distribute_gen a generator is bound to the nearest of the
\* buses of its zone that are in service, real substation or not; a bus out
\* of service is never chosen.
C19_DistributeNearestInServiceBus ==
    [][(InLoop /\ Type = "gen" /\ distribute_gen
           /\ Len(created_gen') = element_pos) =>
          LET bus == created_gen'[element_pos].bus
          IN  /\ bus \in InServiceBuses(Element)
              /\ NearestOf(bus, InServiceBuses(Element), Element)]_mapping

\* All buses of the zone of the element.
ZoneBuses(element) ==
    {b \in DOMAIN net_bus : net_bus[b].zone = element.zone}

\* C20: with distribute_gen the resolution does not depend on the real
\* substations: a generator whose zone has buses in service is bound to its
\* nearest zone bus, whether or not any of them is a real substation.
C20_DistributeIgnoresSubstations ==
    [][(InLoop /\ Type = "gen" /\ distribute_gen
           /\ InServiceBuses(Element) # {}) =>
          /\ mapping_error' = "none"
          /\ Len(created_gen') = element_pos
          /\ created_gen'[element_pos].bus \in ZoneBuses(Element)
          /\ NearestOf(created_gen'[element_pos].bus, ZoneBuses(Element),
                       Element)]_mapping

\* The load records the step has appended.
NewLoads == SubSeq(created_load', Len(created_load) + 1, Len(created_load'))

\* C21: with distribute_load the demand of a region whose zone has a real
\* substation in service is split equally over the real substations in
\* service inside its polygon, one record per such bus and none elsewhere;
\* if none is inside, one record with the full demand is created on the
\* real substation nearest to the centroid.
C21_EvenDistributionOverBusesInside ==
    [][(InLoop /\ Type = "load" /\ distribute_load
           /\ InServiceSubstations(Element) # {}) =>
          LET inside == CandidatesInside(Element)
              new == NewLoads
          IN  /\ mapping_error' = "none"
              /\ \A k \in DOMAIN new : new[k].name = Element.id
              /\ inside # {} =>
                    /\ Len(new) = Cardinality(inside)
                    /\ {new[k].bus : k \in DOMAIN new} = inside
                    /\ \A k \in DOMAIN new :
                          new[k].p_mw = Div(Element.load_factor,
                                            R(Cardinality(inside)))
              /\ inside = {} =>
                    /\ Len(new) = 1
                    /\ new[1].p_mw = Element.load_factor
                    /\ new[1].bus \in InServiceSubstations(Element)
                    /\ NearestOf(new[1].bus, InServiceSubstations(Element),
                                 Element)]_mapping

\* Region A has been split into two records of half its demand on the two
\* substations inside it, and region B, with none inside, has one record
\* with its full demand.
C21_Witness ==
    /\ Type = "load" /\ distribute_load
    /\ net_bus = NetMixed
    /\ Cardinality({k \in DOMAIN created_load :
                      /\ created_load[k].name = "A"
                      /\ created_load[k].p_mw = R(1)
                      /\ created_load[k].bus \in {1, 2}}) = 2
    /\ \E k \in DOMAIN created_load :
          /\ created_load[k].name = "B"
          /\ created_load[k].p_mw = R(1)
          /\ created_load[k].bus = 2

\* C22: without distribute_load the full demand of a region is placed on
\* the real substation in service of its zone that is nearest to the
\* centroid, whatever lies inside the polygon and whatever the voltage
\* levels.
C22_SimpleModeNearestSubstation ==
    [][(InLoop /\ Type = "load" /\ ~distribute_load
           /\ Len(created_load') > Len(created_load)) =>
          /\ Len(NewLoads) = 1
          /\ NewLoads[1].p_mw = Element.load_factor
          /\ NewLoads[1].bus \in InServiceSubstations(Element)
          /\ NearestOf(NewLoads[1].bus, InServiceSubstations(Element),
                       Element)]_mapping

\* The output range computed for the element is invalid.
InvalidRange(element) ==
    IsNaN(calculate_power_limits(element.fueltype, element.capacity)[1])

\* C23: a generator whose computed output range is invalid is still created
\* on its bus, with min_p_mw = max_p_mw = 0 and controllable false; a
\* generator with a valid range is created controllable with
\* 0 <= min_p_mw < max_p_mw <= nameplate.
C23_InvalidRangeNotDispatchable ==
    [][(InLoop /\ Type = "gen"
           /\ InServiceSubstations(Element) # {}) =>
          /\ mapping_error' = "none"
          /\ Len(created_gen') = element_pos
          /\ LET unit == created_gen'[element_pos]
             IN  /\ InvalidRange(Element) =>
                       /\ unit.min_p_mw = Zero
                       /\ unit.max_p_mw = Zero
                       /\ ~unit.controllable
                 /\ ~InvalidRange(Element) =>
                       /\ unit.controllable
                       /\ Le(Zero, unit.min_p_mw)
                       /\ Lt(unit.min_p_mw, unit.max_p_mw)
                       /\ Le(unit.max_p_mw, Element.capacity)]_mapping

(***************************************************************************)
(* Properties of the relaxations and of the frozen allocations             *)
(***************************************************************************)
\* C24: the relaxation of stage 3 sets max_p_mw to the current p_mw and
\* min_p_mw to 0 for exactly the controllable generators whose type is
\* neither solar nor wind (a missing type counts as neither), and changes
\* nothing else: no other limit, no p_mw, no in_service, no load, no record
\* added or removed.
C24_Stage3RelaxesConventionalOnly ==
    [][(pc = "judge" /\ stage = 2 /\ stage' = 3) =>
          /\ Ids(gen') = Ids(gen)
          /\ \A i \in Ids(gen) :
                IF gen[i].controllable /\ gen[i].type \notin {"solar", "wind"}
                THEN gen'[i] = [gen[i] EXCEPT !.max_p_mw = gen[i].p_mw,
                                              !.min_p_mw = Zero]
                ELSE gen'[i] = gen[i]
          /\ load' = load]_vars

\* The run of stage 3 begins with the converter (no type) relaxed and a
\* wind generator still at a positive lower limit.
C24_Witness ==
    /\ stage = 3 /\ pc = "run" /\ t = 1 /\ applied = << 3 >>
    /\ \E i \in Ids(gen) :
          /\ gen[i].type = "NaN"
          /\ gen[i].min_p_mw = Zero
          /\ gen[i].max_p_mw = gen[i].p_mw
    /\ \E i \in Ids(gen) :
          gen[i].type = "wind" /\ Lt(Zero, gen[i].min_p_mw)

\* C25: at every solver invocation of the run of stage 5 each load is
\* controllable, its min_p_mw is 10% and its max_p_mw 100% of the demand
\* it carries at that time step, so min_p_mw <= p_mw <= max_p_mw.
C25_CurtailmentBoundsBracketDemand ==
    (seen.valid /\ stage = 5) =>
       \A j \in DOMAIN seen.load :
          /\ seen.load[j].controllable
          /\ seen.load[j].min_p_mw = Mul(seen.load[j].p_mw, <<1, 10>>)
          /\ seen.load[j].max_p_mw = seen.load[j].p_mw
          /\ Le(seen.load[j].min_p_mw, seen.load[j].p_mw)
          /\ Le(seen.load[j].p_mw, seen.load[j].max_p_mw)

\* C26: when the solver is invoked for a time step, every unit of every
\* category allocated in the step is frozen at its dispatched value:
\* min_p_mw = max_p_mw = p_mw.
C26_AllocatedCategoriesStayFrozen ==
    seen.valid =>
       \A renewable \in seen.done :
          \A i \in Selected(seen.gen, renewable) :
             /\ seen.gen[i].min_p_mw = seen.gen[i].p_mw
             /\ seen.gen[i].max_p_mw = seen.gen[i].p_mw

\* C27: no time step and no relaxation changes the set of generator and
\* load records, the bus of a record, the region and the num of a load
\* record (hence the number of records of a region), or the p_mw_original
\* of a generator.
C27_AssignmentAndCeilingFixed ==
    [][/\ Ids(gen') = Ids(gen)
       /\ DOMAIN load' = DOMAIN load
       /\ \A i \in Ids(gen) :
             /\ gen'[i].bus = gen[i].bus
             /\ gen'[i].p_mw_original = gen[i].p_mw_original
       /\ \A j \in DOMAIN load :
             /\ load'[j].bus = load[j].bus
             /\ load'[j].name = load[j].name
             /\ load'[j].num = load[j].num]_vars

\* The three relaxations and the time steps of stage 5 have acted: a
\* generator is dispatched below its ceiling, a load differs from its
\* demand at creation, and buses and ceilings are those of construction.
C27_Witness ==
    /\ seen.valid /\ stage = 5 /\ applied = << 3, 4, 5 >>
    /\ gen \notin Fleets
    /\ \E i \in Ids(gen) : Lt(gen[i].p_mw, gen[i].p_mw_original)
    /\ \E j \in DOMAIN load : load[j].p_mw # InitLoads[j].p_mw
    /\ \E fleet \in Fleets :
          \A i \in Ids(gen) :
             /\ gen[i].bus = fleet[i].bus
             /\ gen[i].p_mw_original = fleet[i].p_mw_original
    /\ \A j \in DOMAIN load : load[j].num = InitLoads[j].num

(***************************************************************************)
(* Properties of allocate_renewable_generation                             *)
(***************************************************************************)
\* The units of the category all lie in one country and their shares are
\* their nameplates divided by the category's capacity.
OneCountryCategory(g, renewable) ==
    LET sel == Selected(g, renewable)
        total == SumOver(Column(g, "p_mw_original"), sel)
    IN  /\ sel # {}
        /\ \A i, k \in sel : g[i].country = g[k].country
        /\ Lt(Zero, total)
        /\ \A i \in sel : g[i].normed_p_mw = Div(g[i].p_mw_original, total)

C29_AllocationIdempotent ==
    [][(call'.n = call.n + 1 /\ raised' = "none"
           /\ call'.renewable = call.renewable
           /\ call'.country_generation = call.country_generation) =>
          \A i \in Ids(gen) :
             /\ gen'[i].p_mw = gen[i].p_mw
             /\ gen'[i].min_p_mw = gen[i].min_p_mw
             /\ gen'[i].max_p_mw = gen[i].max_p_mw]_<<vars, call>>

(***************************************************************************)
(* Bus and geodata tables that are not stored alike                        *)
(***************************************************************************)
\* The buses the nearest-neighbour query of the branch taken ranges over:
\* those with a geodata row among all buses of the zone (distribute_gen) or
\* among its real substations in service (fallback).
QueriedCandidates(element) ==
    IF Type = "gen" /\ distribute_gen
    THEN Labels(GeodataOf(country_buses(element)))
    ELSE Labels(real_country_buses_geodata(element))

\* The bus the records created by the step are bound to.
BoundBus ==
    IF Type = "gen" THEN created_gen'[Len(created_gen')].bus
    ELSE created_load'[Len(created_load')].bus

\* C30: whatever the order of the rows of net.bus_geodata and whichever
\* buses have no row in it, an asset bound in the nearest-substation
\* fallback branch or in the distribute_gen branch is bound to a candidate
\* of the query at minimum Euclidean distance from the centroid of the
\* asset.
C30_BoundBusIsTheOneQueried ==
    [][(InLoop /\ element_pos' = element_pos + 1
           /\ ((Type = "gen" /\ distribute_gen)
                  \/ buses_within_polygon(Element) = << >>)) =>
          /\ BoundBus \in QueriedCandidates(Element)
          /\ NearestOf(BoundBus, QueriedCandidates(Element), Element)]_mapping

====
